---- MODULE Spec2Model ----
(***************************************************************************)
(* TelemetryWatch: the metric registry as it is used by the request        *)
(* instrumentation middleware (src/src/middleware.rs) and by the gauge     *)
(* reconciliation job (src/src/main.rs, update_metrics).                   *)
(*                                                                         *)
(* Strings that the code inspects character by character (request paths,   *)
(* content-length headers, status labels) are sequences of one-character   *)
(* strings.  Durations are in milliseconds (0.5 s = 500).                  *)
(***************************************************************************)
EXTENDS Integers, Sequences, FiniteSets, TLC

(***************************************************************************)
(* Bounds of the model.                                                    *)
(***************************************************************************)
MaxRequests == 2
MaxSegments == 4

(***************************************************************************)
(* Text helpers.                                                           *)
(***************************************************************************)
Digits == <<"0", "1", "2", "3", "4", "5", "6", "7", "8", "9">>

IsDigit(c) == \E i \in 1..10 : Digits[i] = c

DigitVal(c) == (CHOOSE i \in 1..10 : Digits[i] = c) - 1

RECURSIVE StripZeros(_)
StripZeros(s) ==
    IF Len(s) > 1 /\ s[1] = "0" THEN StripZeros(Tail(s)) ELSE s

\* u64::MAX = 18446744073709551615, as decimal digits
U64MaxDigits ==
    <<"1", "8", "4", "4", "6", "7", "4", "4", "0", "7",
      "3", "7", "0", "9", "5", "5", "1", "6", "1", "5">>

RECURSIVE DigitsLeq(_, _)
\* lexicographic <= of two digit strings of the same length
DigitsLeq(a, b) ==
    IF a = <<>> THEN TRUE
    ELSE IF DigitVal(a[1]) < DigitVal(b[1]) THEN TRUE
    ELSE IF DigitVal(a[1]) > DigitVal(b[1]) THEN FALSE
    ELSE DigitsLeq(Tail(a), Tail(b))

\* str::parse::<u64>().is_ok(): an optional '+', then one or more decimal
\* digits whose value fits 64 bits
ParsesU64(s) ==
    LET d == IF Len(s) > 0 /\ s[1] = "+" THEN Tail(s) ELSE s
        z == StripZeros(d)
    IN  /\ Len(d) > 0
        /\ \A i \in 1..Len(d) : IsDigit(d[i])
        /\ \/ Len(z) < Len(U64MaxDigits)
           \/ Len(z) = Len(U64MaxDigits) /\ DigitsLeq(z, U64MaxDigits)

RECURSIVE DigitsValue(_)
DigitsValue(d) ==
    IF d = <<>> THEN 0 ELSE 10 * DigitsValue(SubSeq(d, 1, Len(d) - 1)) + DigitVal(d[Len(d)])

RECURSIVE U16ToString(_)
\* u16::to_string
U16ToString(n) ==
    IF n < 10 THEN <<Digits[n + 1]>> ELSE Append(U16ToString(n \div 10), Digits[(n % 10) + 1])

RECURSIVE SplitFrom(_, _, _)
SplitFrom(s, i, cur) ==
    IF i > Len(s) THEN <<cur>>
    ELSE IF s[i] = "/" THEN <<cur>> \o SplitFrom(s, i + 1, <<>>)
    ELSE SplitFrom(s, i + 1, Append(cur, s[i]))

\* str::split('/')
Split(s) == SplitFrom(s, 1, <<>>)

RECURSIVE Join(_)
\* [&str]::join("/")
Join(parts) ==
    IF parts = <<>> THEN <<>>
    ELSE IF Len(parts) = 1 THEN parts[1]
    ELSE parts[1] \o <<"/">> \o Join(Tail(parts))

StartsWith(s, p) == Len(s) >= Len(p) /\ SubSeq(s, 1, Len(p)) = p

(***************************************************************************)
(* Path Normalizer.                                                        *)
(***************************************************************************)
ApiPrefix == <<"/", "a", "p", "i", "/">>

IdPlaceholder == <<"/", ":", "i", "d">>

\* LooksLikeId with the length test off by one
LooksLikeIdFromTen(last) == ParsesU64(last) \/ Len(last) >= 10

\* the last-segment test of line 133
LooksLikeId(last) == ParsesU64(last) \/ Len(last) > 10

\* normalize_path that already rewrites a path of 3 parts
normalize_path_from_three(path) ==
    IF StartsWith(path, ApiPrefix)
    THEN LET parts == Split(path)
         IN  IF Len(parts) >= 3 /\ LooksLikeId(parts[Len(parts)])
             THEN Join(SubSeq(parts, 1, Len(parts) - 1)) \o IdPlaceholder
             ELSE path
    ELSE path

\* normalize_path that drops the last part and puts nothing in its place
normalize_path_dropping_last(path) ==
    IF StartsWith(path, ApiPrefix)
    THEN LET parts == Split(path)
         IN  IF Len(parts) > 3 /\ LooksLikeId(parts[Len(parts)])
             THEN Join(SubSeq(parts, 1, Len(parts) - 1))
             ELSE path
    ELSE path

\* lines 124-142
normalize_path(path) ==
    IF StartsWith(path, ApiPrefix)
    THEN LET parts == Split(path)
         IN  IF Len(parts) > 3 /\ LooksLikeId(parts[Len(parts)])
             THEN Join(SubSeq(parts, 1, Len(parts) - 1)) \o IdPlaceholder
             ELSE path
    ELSE path

(***************************************************************************)
(* Router (create_router): the paths given to .route(...).                 *)
(***************************************************************************)
s_api == <<"a", "p", "i">>
s_v1 == <<"v", "1">>
s_platform == <<"p", "l", "a", "t", "f", "o", "r", "m">>
s_projects == <<"p", "r", "o", "j", "e", "c", "t", "s">>
s_suspend == <<"s", "u", "s", "p", "e", "n", "d">>
s_resume == <<"r", "e", "s", "u", "m", "e">>
s_status == <<"s", "t", "a", "t", "u", "s">>
s_health == <<"h", "e", "a", "l", "t", "h">>
s_ready == <<"r", "e", "a", "d", "y">>
s_metrics == <<"m", "e", "t", "r", "i", "c", "s">>
s_id == <<":", "i", "d">>

\* "/" seg1 "/" seg2 ...
MkPath(segs) == Join(<<<<>>>> \o segs)

Routes ==
    << MkPath(<<s_health>>),
       MkPath(<<s_ready>>),
       MkPath(<<s_metrics>>),
       MkPath(<<s_api, s_v1, s_status>>),
       MkPath(<<s_api, s_v1, s_platform, s_projects>>),
       MkPath(<<s_api, s_v1, s_platform, s_projects, s_id, s_suspend>>),
       MkPath(<<s_api, s_v1, s_platform, s_projects, s_id, s_resume>>),
       MkPath(<<<<>>>>) >>

\* a route matches a path segment by segment; ":id" matches any one
\* non-empty segment
RouteMatches(route, path) ==
    LET rp == Split(route)
        pp == Split(path)
    IN  /\ Len(rp) = Len(pp)
        /\ \A i \in 1..Len(rp) :
              IF rp[i] = s_id THEN pp[i] # <<>> ELSE rp[i] = pp[i]

\* index of the route that serves the path, 0 when none does
RouteOf(path) ==
    IF \E i \in 1..Len(Routes) : RouteMatches(Routes[i], path)
    THEN CHOOSE i \in 1..Len(Routes) : RouteMatches(Routes[i], path)
    ELSE 0

(***************************************************************************)
(* Metric Registry: the prometheus types used by Metrics.                  *)
(* A vector is a function from the label tuples written so far to the      *)
(* value of their series; a series is created by its first write.          *)
(***************************************************************************)
EmptyVec == <<>>

HasSeries(vec, labels) == labels \in DOMAIN vec

\* IntCounterVec::with_label_values(labels).inc()
CounterInc(vec, labels) ==
    IF HasSeries(vec, labels)
    THEN [vec EXCEPT ![labels] = @ + 1]
    ELSE vec @@ (labels :> 1)

\* GaugeVec::with_label_values(labels).set(v)
GaugeSet(vec, labels, v) ==
    IF HasSeries(vec, labels)
    THEN [vec EXCEPT ![labels] = v]
    ELSE vec @@ (labels :> v)

\* upper bounds of http_request_duration_seconds, in milliseconds
DurationBuckets == <<1, 5, 10, 25, 50, 100, 250, 500, 1000, 2500, 5000>>

\* upper bounds of http_request_size_bytes and http_response_size_bytes
SizeBuckets == <<100, 500, 1000, 5000, 10000, 50000, 100000, 500000, 1000000>>

\* a histogram series: cumulative count per upper bound, the +Inf bucket
\* being count
EmptyHistogram(bounds) ==
    [count |-> 0, sum |-> 0, buckets |-> [i \in 1..Len(bounds) |-> 0]]

\* Observe with the upper bounds exclusive
ObserveBelow(h, bounds, v) ==
    [count |-> h.count + 1,
     sum |-> h.sum + v,
     buckets |-> [i \in 1..Len(bounds) |->
                     IF v < bounds[i] THEN h.buckets[i] + 1 ELSE h.buckets[i]]]

\* Histogram::observe(v)
Observe(h, bounds, v) ==
    [count |-> h.count + 1,
     sum |-> h.sum + v,
     buckets |-> [i \in 1..Len(bounds) |->
                     IF v <= bounds[i] THEN h.buckets[i] + 1 ELSE h.buckets[i]]]

\* HistogramVec::with_label_values(labels).observe(v)
HistogramObserve(vec, bounds, labels, v) ==
    IF HasSeries(vec, labels)
    THEN [vec EXCEPT ![labels] = Observe(@, bounds, v)]
    ELSE vec @@ (labels :> Observe(EmptyHistogram(bounds), bounds, v))

RECURSIVE SumOver(_, _)
SumOver(f, S) ==
    IF S = {} THEN 0
    ELSE LET x == CHOOSE y \in S : TRUE IN f[x] + SumOver(f, S \ {x})

\* the sum of all series of a counter vector
VecTotal(vec) == SumOver(vec, DOMAIN vec)

(***************************************************************************)
(* Request Instrumentation Middleware (metrics_middleware).                *)
(***************************************************************************)
VARIABLES
    reqs,                           \* the requests: position and locals of each
    active_connections,             \* Gauge
    http_requests_total,            \* IntCounterVec (method, endpoint, status)
    http_request_duration_seconds,  \* HistogramVec (method, endpoint)
    http_errors_total,              \* IntCounterVec (method, endpoint, status, error_type)
    http_request_size_bytes,        \* HistogramVec (method, endpoint)
    http_response_size_bytes,       \* HistogramVec (method, endpoint, status)
    sla_violations_total            \* IntCounterVec (endpoint, sla_type)

mw_vars ==
    <<reqs, active_connections, http_requests_total, http_request_duration_seconds,
      http_errors_total, http_request_size_bytes, http_response_size_bytes,
      sla_violations_total>>

RequestIds == 1..MaxRequests

\* An optional header is a sequence of at most one value.
NoHeader == <<>>

\* str::parse::<f64>() on the values the model sends: an optional sign and
\* decimal digits; anything else does not parse.  The result is optional.
ParseF64(s) ==
    LET signed == Len(s) > 0 /\ s[1] \in {"+", "-"}
        d == IF signed THEN Tail(s) ELSE s
    IN  IF Len(d) > 0 /\ \A i \in 1..Len(d) : IsDigit(d[i])
        THEN IF signed /\ s[1] = "-" THEN <<0 - DigitsValue(d)>> ELSE <<DigitsValue(d)>>
        ELSE <<>>

\* headers().get("content-length").and_then(to_str).and_then(parse).unwrap_or(0.0)
ContentLength(header) ==
    IF header = NoHeader THEN 0
    ELSE LET v == ParseF64(header[1]) IN IF v = <<>> THEN 0 ELSE v[1]

\* the requests the clients send
RequestInputs ==
    { [method |-> "GET", path |-> MkPath(<<s_health>>), content_length |-> NoHeader],
      [method |-> "POST",
       path |-> MkPath(<<s_api, s_v1, s_platform, s_projects, <<"1">>, s_suspend>>),
       content_length |-> NoHeader],
      [method |-> "POST",
       path |-> MkPath(<<s_api, s_v1, s_platform, s_projects, <<"2">>, s_suspend>>),
       content_length |-> << <<"1", "2", "0">> >>] }

\* what the wrapped handler answers: status, elapsed milliseconds and the
\* content-length header of the response
HandlerOutcomes ==
    { [status |-> 200, duration |-> 100, content_length |-> << <<"5", "0">> >>],
      [status |-> 404, duration |-> 600, content_length |-> NoHeader],
      [status |-> 500, duration |-> 1200, content_length |-> << <<"a">> >>] }

NoRequest ==
    [pc |-> "new", method |-> "", endpoint |-> <<>>, path |-> <<>>, request_size |-> 0,
     status |-> 0, duration |-> 0, response_size |-> 0,
     in_gauge |-> FALSE, recorded |-> {}]

\* error_type with the client errors starting above 400
error_type_above_400(status) ==
    IF status >= 500 THEN "server_error"
    ELSE IF status > 400 THEN "client_error"
    ELSE "none"

\* lines 45-52
error_type(status) ==
    IF status >= 500 THEN "server_error"
    ELSE IF status >= 400 THEN "client_error"
    ELSE "none"

\* the positions of a request that is inside metrics_middleware
Bookkeeping ==
    {"req_size", "resp_size", "count", "duration", "errors", "sla_p95", "sla_p99", "dec"}

InProgress(r) == reqs[r].pc \in {"handler"} \cup Bookkeeping

Entered(r) == reqs[r].pc # "new"

Mark(r, pc, what) ==
    [reqs EXCEPT ![r].pc = pc, ![r].recorded = @ \cup what]

\* Start without the increment of line 33
StartWithoutInc(r, inp) ==
    /\ reqs[r].pc = "new"
    /\ \A q \in RequestIds : q < r => Entered(q)
    /\ reqs' = [reqs EXCEPT ![r] =
                  [NoRequest EXCEPT !.pc = "handler",
                                    !.method = inp.method,
                                    !.path = inp.path,
                                    !.endpoint = normalize_path(inp.path),
                                    !.request_size = ContentLength(inp.content_length)]]
    /\ UNCHANGED <<active_connections, http_requests_total, http_request_duration_seconds,
                   http_errors_total, http_request_size_bytes, http_response_size_bytes,
                   sla_violations_total>>

\* lines 17-36: START, up to the await of the wrapped handler
Start(r, inp) ==
    /\ reqs[r].pc = "new"
    /\ \A q \in RequestIds : q < r => Entered(q)
    /\ reqs' = [reqs EXCEPT ![r] =
                  [NoRequest EXCEPT !.pc = "handler",
                                    !.method = inp.method,
                                    !.path = inp.path,
                                    !.endpoint = normalize_path(inp.path),
                                    !.request_size = ContentLength(inp.content_length),
                                    !.in_gauge = TRUE]]
    /\ active_connections' = active_connections + 1
    /\ UNCHANGED <<http_requests_total, http_request_duration_seconds, http_errors_total,
                   http_request_size_bytes, http_response_size_bytes, sla_violations_total>>

\* HandlerReturns with the gauge decremented as soon as the handler is back
HandlerReturnsAndDecrements(r, out) ==
    /\ reqs[r].pc = "handler"
    /\ reqs' = [reqs EXCEPT ![r].pc = "req_size",
                            ![r].status = out.status,
                            ![r].duration = out.duration,
                            ![r].response_size = ContentLength(out.content_length),
                            ![r].in_gauge = FALSE]
    /\ active_connections' = active_connections - 1
    /\ UNCHANGED <<http_requests_total, http_request_duration_seconds,
                   http_errors_total, http_request_size_bytes, http_response_size_bytes,
                   sla_violations_total>>

\* lines 36-60 and 71-76: the handler returns a response; the locals are computed
HandlerReturns(r, out) ==
    /\ reqs[r].pc = "handler"
    /\ reqs' = [reqs EXCEPT ![r].pc = "req_size",
                            ![r].status = out.status,
                            ![r].duration = out.duration,
                            ![r].response_size = ContentLength(out.content_length)]
    /\ UNCHANGED <<active_connections, http_requests_total, http_request_duration_seconds,
                   http_errors_total, http_request_size_bytes, http_response_size_bytes,
                   sla_violations_total>>

\* line 36: the handler panics, or the request future is dropped while it
\* waits; the frame is unwound and nothing after the await runs
HandlerFaults(r) ==
    /\ reqs[r].pc = "handler"
    /\ reqs' = [reqs EXCEPT ![r].pc = "faulted"]
    /\ UNCHANGED <<active_connections, http_requests_total, http_request_duration_seconds,
                   http_errors_total, http_request_size_bytes, http_response_size_bytes,
                   sla_violations_total>>

\* RecordRequestSize that also records a size of 0
RecordRequestSizeAlways(r) ==
    /\ reqs[r].pc = "req_size"
    /\ IF reqs[r].request_size >= 0
       THEN /\ http_request_size_bytes' =
                  HistogramObserve(http_request_size_bytes, SizeBuckets,
                                   <<reqs[r].method, reqs[r].endpoint>>, reqs[r].request_size)
            /\ reqs' = Mark(r, "resp_size", {"request_size"})
       ELSE /\ UNCHANGED http_request_size_bytes
            /\ reqs' = Mark(r, "resp_size", {})
    /\ UNCHANGED <<active_connections, http_requests_total, http_request_duration_seconds,
                   http_errors_total, http_response_size_bytes, sla_violations_total>>

\* lines 62-68
RecordRequestSize(r) ==
    /\ reqs[r].pc = "req_size"
    /\ IF reqs[r].request_size > 0
       THEN /\ http_request_size_bytes' =
                  HistogramObserve(http_request_size_bytes, SizeBuckets,
                                   <<reqs[r].method, reqs[r].endpoint>>, reqs[r].request_size)
            /\ reqs' = Mark(r, "resp_size", {"request_size"})
       ELSE /\ UNCHANGED http_request_size_bytes
            /\ reqs' = Mark(r, "resp_size", {})
    /\ UNCHANGED <<active_connections, http_requests_total, http_request_duration_seconds,
                   http_errors_total, http_response_size_bytes, sla_violations_total>>

\* lines 78-83
RecordResponseSize(r) ==
    /\ reqs[r].pc = "resp_size"
    /\ IF reqs[r].response_size > 0
       THEN /\ http_response_size_bytes' =
                  HistogramObserve(http_response_size_bytes, SizeBuckets,
                                   <<reqs[r].method, reqs[r].endpoint,
                                     U16ToString(reqs[r].status)>>,
                                   reqs[r].response_size)
            /\ reqs' = Mark(r, "count", {"response_size"})
       ELSE /\ UNCHANGED http_response_size_bytes
            /\ reqs' = Mark(r, "count", {})
    /\ UNCHANGED <<active_connections, http_requests_total, http_request_duration_seconds,
                   http_errors_total, http_request_size_bytes, sla_violations_total>>

\* RecordRequest that stores 1 over what the series holds
RecordRequestOverwrites(r) ==
    /\ reqs[r].pc = "count"
    /\ http_requests_total' =
          GaugeSet(http_requests_total,
                   <<reqs[r].method, reqs[r].endpoint, U16ToString(reqs[r].status)>>, 1)
    /\ reqs' = Mark(r, "duration", {"requests_total"})
    /\ UNCHANGED <<active_connections, http_request_duration_seconds, http_errors_total,
                   http_request_size_bytes, http_response_size_bytes, sla_violations_total>>

\* RecordRequest that leaves the increment to a later place
RecordRequestLate(r) ==
    /\ reqs[r].pc = "count"
    /\ reqs' = Mark(r, "duration", {})
    /\ UNCHANGED <<active_connections, http_requests_total, http_request_duration_seconds,
                   http_errors_total, http_request_size_bytes, http_response_size_bytes,
                   sla_violations_total>>

\* lines 85-89
RecordRequest(r) ==
    /\ reqs[r].pc = "count"
    /\ http_requests_total' =
          CounterInc(http_requests_total,
                     <<reqs[r].method, reqs[r].endpoint, U16ToString(reqs[r].status)>>)
    /\ reqs' = Mark(r, "duration", {"requests_total"})
    /\ UNCHANGED <<active_connections, http_request_duration_seconds, http_errors_total,
                   http_request_size_bytes, http_response_size_bytes, sla_violations_total>>

\* RecordDuration that observes the duration twice
RecordDurationTwice(r) ==
    /\ reqs[r].pc = "duration"
    /\ http_request_duration_seconds' =
          HistogramObserve(
              HistogramObserve(http_request_duration_seconds, DurationBuckets,
                               <<reqs[r].method, reqs[r].endpoint>>, reqs[r].duration),
              DurationBuckets, <<reqs[r].method, reqs[r].endpoint>>, reqs[r].duration)
    /\ reqs' = Mark(r, "errors", {"duration"})
    /\ UNCHANGED <<active_connections, http_requests_total, http_errors_total,
                   http_request_size_bytes, http_response_size_bytes, sla_violations_total>>

\* lines 91-94
RecordDuration(r) ==
    /\ reqs[r].pc = "duration"
    /\ http_request_duration_seconds' =
          HistogramObserve(http_request_duration_seconds, DurationBuckets,
                           <<reqs[r].method, reqs[r].endpoint>>, reqs[r].duration)
    /\ reqs' = Mark(r, "errors", {"duration"})
    /\ UNCHANGED <<active_connections, http_requests_total, http_errors_total,
                   http_request_size_bytes, http_response_size_bytes, sla_violations_total>>

\* lines 96-102
RecordError(r) ==
    /\ reqs[r].pc = "errors"
    /\ IF error_type(reqs[r].status) # "none"
       THEN /\ http_errors_total' =
                  CounterInc(http_errors_total,
                             <<reqs[r].method, reqs[r].endpoint, U16ToString(reqs[r].status),
                               error_type(reqs[r].status)>>)
            /\ reqs' = Mark(r, "sla_p95", {"errors"})
       ELSE /\ UNCHANGED http_errors_total
            /\ reqs' = Mark(r, "sla_p95", {})
    /\ UNCHANGED <<active_connections, http_requests_total, http_request_duration_seconds,
                   http_request_size_bytes, http_response_size_bytes, sla_violations_total>>

\* RecordSlaP95 with the threshold included
RecordSlaP95Inclusive(r) ==
    /\ reqs[r].pc = "sla_p95"
    /\ IF reqs[r].duration >= 500
       THEN /\ sla_violations_total' =
                  CounterInc(sla_violations_total, <<reqs[r].endpoint, "latency_p95">>)
            /\ reqs' = Mark(r, "sla_p99", {"latency_p95"})
       ELSE /\ UNCHANGED sla_violations_total
            /\ reqs' = Mark(r, "sla_p99", {})
    /\ UNCHANGED <<active_connections, http_requests_total, http_request_duration_seconds,
                   http_errors_total, http_request_size_bytes, http_response_size_bytes>>

\* lines 105-110: duration > 0.5
RecordSlaP95(r) ==
    /\ reqs[r].pc = "sla_p95"
    /\ IF reqs[r].duration > 500
       THEN /\ sla_violations_total' =
                  CounterInc(sla_violations_total, <<reqs[r].endpoint, "latency_p95">>)
            /\ reqs' = Mark(r, "sla_p99", {"latency_p95"})
       ELSE /\ UNCHANGED sla_violations_total
            /\ reqs' = Mark(r, "sla_p99", {})
    /\ UNCHANGED <<active_connections, http_requests_total, http_request_duration_seconds,
                   http_errors_total, http_request_size_bytes, http_response_size_bytes>>

\* RecordSlaP99 with no threshold
RecordSlaP99Always(r) ==
    /\ reqs[r].pc = "sla_p99"
    /\ IF reqs[r].duration > 0
       THEN /\ sla_violations_total' =
                  CounterInc(sla_violations_total, <<reqs[r].endpoint, "latency_p99">>)
            /\ reqs' = Mark(r, "dec", {"latency_p99"})
       ELSE /\ UNCHANGED sla_violations_total
            /\ reqs' = Mark(r, "dec", {})
    /\ UNCHANGED <<active_connections, http_requests_total, http_request_duration_seconds,
                   http_errors_total, http_request_size_bytes, http_response_size_bytes>>

\* lines 111-116: duration > 1.0
RecordSlaP99(r) ==
    /\ reqs[r].pc = "sla_p99"
    /\ IF reqs[r].duration > 1000
       THEN /\ sla_violations_total' =
                  CounterInc(sla_violations_total, <<reqs[r].endpoint, "latency_p99">>)
            /\ reqs' = Mark(r, "dec", {"latency_p99"})
       ELSE /\ UNCHANGED sla_violations_total
            /\ reqs' = Mark(r, "dec", {})
    /\ UNCHANGED <<active_connections, http_requests_total, http_request_duration_seconds,
                   http_errors_total, http_request_size_bytes, http_response_size_bytes>>

\* lines 118-121: the gauge is decremented and the response returned; the
\* locals of the call are gone
Decrement(r) ==
    /\ reqs[r].pc = "dec"
    /\ active_connections' = active_connections - 1
    /\ reqs' = [reqs EXCEPT ![r] =
                  [NoRequest EXCEPT !.pc = "done", !.recorded = reqs[r].recorded]]
    /\ UNCHANGED <<http_requests_total, http_request_duration_seconds, http_errors_total,
                   http_request_size_bytes, http_response_size_bytes, sla_violations_total>>

MwInit ==
    /\ reqs = [r \in RequestIds |-> NoRequest]
    /\ active_connections = 0
    /\ http_requests_total = EmptyVec
    /\ http_request_duration_seconds = EmptyVec
    /\ http_errors_total = EmptyVec
    /\ http_request_size_bytes = EmptyVec
    /\ http_response_size_bytes = EmptyVec
    /\ sla_violations_total = EmptyVec

MwNext ==
    \E r \in RequestIds :
        \/ \E inp \in RequestInputs : Start(r, inp)
        \/ \E out \in HandlerOutcomes : HandlerReturns(r, out)
        \/ HandlerFaults(r)
        \/ RecordRequestSize(r)
        \/ RecordResponseSize(r)
        \/ RecordRequest(r)
        \/ RecordDuration(r)
        \/ RecordError(r)
        \/ RecordSlaP95(r)
        \/ RecordSlaP99(r)
        \/ Decrement(r)

(***************************************************************************)
(* Project store (platform.rs) and Gauge Reconciliation Job (main.rs).     *)
(***************************************************************************)
VARIABLES
    store,                    \* rows of platform_projects, in creation order
    tick_pc,                  \* position of the background task
    projects,                 \* update_metrics: the rows read by this tick
    platform_projects,        \* GaugeVec (slug, status, plan, region)
    platform_projects_total,  \* GaugeVec (status, plan)
    db_pool_size,             \* Gauge
    ticks,                    \* history: the last two successful ticks, newest first
    last_read                 \* history: outcome of the latest store read

recon_vars ==
    <<store, tick_pc, projects, platform_projects, platform_projects_total,
      db_pool_size, ticks, last_read>>

\* DATABASE_MAX_CONNECTIONS, by default
MaxConnections == 10

\* what clients put in the slug, plan and region of a CreatePlatformProject
SlugInputs == {"acme", "beta"}
PlanInputs == {"dev", "pro", "free"}
RegionInputs == {"us-east-1"}

\* the enumerations of lines 136-137
KnownStatuses == <<"active", "suspended">>
KnownPlans == <<"dev", "pro", "enterprise">>

\* INSERT ... VALUES ($1, $2, 'active', $3, ...): the slug column is UNIQUE
\* (db.rs line 90), a second row with the same slug is refused and nothing is
\* stored; the store never holds more rows than there are slugs
create_platform_project(slug, plan, region) ==
    /\ \A i \in 1..Len(store) : store[i].slug # slug
    /\ store' = Append(store, [id |-> Len(store) + 1, slug |-> slug, status |-> "active",
                               plan |-> plan, region |-> region])
    /\ UNCHANGED <<tick_pc, projects, platform_projects, platform_projects_total,
                   db_pool_size, ticks, last_read>>

\* UPDATE platform_projects SET status = $2 WHERE id = $1
update_platform_project_status(id, status) ==
    /\ id \in 1..Len(store)
    /\ store' = [store EXCEPT ![id].status = status]
    /\ UNCHANGED <<tick_pc, projects, platform_projects, platform_projects_total,
                   db_pool_size, ticks, last_read>>

\* suspend_platform_project that flips the status it finds
suspend_platform_project_toggles(id) ==
    update_platform_project_status(
        id, IF store[id].status = "suspended" THEN "active" ELSE "suspended")

\* api.rs lines 258-278
suspend_platform_project(id) == update_platform_project_status(id, "suspended")

resume_platform_project(id) == update_platform_project_status(id, "active")

\* SELECT ... ORDER BY created_at DESC
list_platform_projects == [i \in 1..Len(store) |-> store[Len(store) + 1 - i]]

\* TickStart that leaves the pool-size gauge alone
TickStartWithoutPoolSize ==
    /\ tick_pc = "idle"
    /\ tick_pc' = "read"
    /\ UNCHANGED <<store, projects, platform_projects, platform_projects_total,
                   db_pool_size, ticks, last_read>>

\* lines 86-94: the pool-size gauge is set and the store read is issued
TickStart ==
    /\ tick_pc = "idle"
    /\ tick_pc' = "read"
    /\ db_pool_size' = MaxConnections
    /\ UNCHANGED <<store, projects, platform_projects, platform_projects_total,
                   ticks, last_read>>

\* line 94: the read answers Ok(projects)
ReadOk ==
    /\ tick_pc = "read"
    /\ tick_pc' = "gauges"
    /\ projects' = list_platform_projects
    /\ last_read' = "ok"
    /\ UNCHANGED <<store, platform_projects, platform_projects_total, db_pool_size, ticks>>

\* ReadFail with the totals reset before the result of the read is looked at
ReadFailResets ==
    /\ tick_pc = "read"
    /\ tick_pc' = "idle"
    /\ last_read' = "failed"
    /\ platform_projects_total' =
          [k \in DOMAIN platform_projects_total |-> 0]
    /\ UNCHANGED <<store, projects, platform_projects, db_pool_size, ticks>>

\* ReadFail that ends the loop of the task
ReadFailStops ==
    /\ tick_pc = "read"
    /\ tick_pc' = "stopped"
    /\ last_read' = "failed"
    /\ UNCHANGED <<store, projects, platform_projects, platform_projects_total,
                   db_pool_size, ticks>>

\* line 94: the read answers Err; update_metrics returns
ReadFail ==
    /\ tick_pc = "read"
    /\ tick_pc' = "idle"
    /\ last_read' = "failed"
    /\ UNCHANGED <<store, projects, platform_projects, platform_projects_total,
                   db_pool_size, ticks>>

ProjectLabels(p) == <<p.slug, p.status, p.plan, p.region>>

RECURSIVE inc_project_gauges(_, _)
\* set_project_gauges with .inc() in the place of .set(1.0)
inc_project_gauges(vec, rows) ==
    IF rows = <<>> THEN vec
    ELSE LET k == ProjectLabels(Head(rows))
         IN  inc_project_gauges(
                 GaugeSet(vec, k, IF HasSeries(vec, k) THEN vec[k] + 1 ELSE 1), Tail(rows))

RECURSIVE only_current_gauges(_, _)
\* set_project_gauges on a vector that was cleared first
only_current_gauges(vec, rows) ==
    IF rows = <<>> THEN EmptyVec
    ELSE GaugeSet(only_current_gauges(vec, Tail(rows)), ProjectLabels(Head(rows)), 1)

RECURSIVE set_project_gauges(_, _)
\* lines 108-127: every project of the snapshot gets its gauge set to 1
set_project_gauges(vec, rows) ==
    IF rows = <<>> THEN vec
    ELSE set_project_gauges(GaugeSet(vec, ProjectLabels(Head(rows)), 1), Tail(rows))

\* lines 102-103 and 128-130: the HashMap of the (status, plan) pairs of the
\* snapshot with the number of projects of each
status_plan_counts(rows) ==
    [key \in {<<rows[i].status, rows[i].plan>> : i \in 1..Len(rows)} |->
        Cardinality({i \in 1..Len(rows) : <<rows[i].status, rows[i].plan>> = key})]

RECURSIVE SetEach(_, _, _)
\* .set(values[k]) on the series of every k of keys, one after the other
SetEach(vec, keys, values) ==
    IF keys = {} THEN vec
    ELSE LET k == CHOOSE x \in keys : TRUE
         IN  SetEach(GaugeSet(vec, k, values[k]), keys \ {k}, values)

KnownCombinations ==
    {<<KnownStatuses[i], KnownPlans[j]>> : i \in 1..Len(KnownStatuses), j \in 1..Len(KnownPlans)}

\* reset_totals that resets nothing
reset_totals_skipped(vec) == vec

\* lines 136-143
reset_totals(vec) == SetEach(vec, KnownCombinations, [k \in KnownCombinations |-> 0])

\* lines 146-151
set_current_totals(vec, counts) == SetEach(vec, DOMAIN counts, counts)

\* the loop of lines 108-131
SetProjectGauges ==
    /\ tick_pc = "gauges"
    /\ tick_pc' = "reset"
    /\ platform_projects' = set_project_gauges(platform_projects, projects)
    /\ UNCHANGED <<store, projects, platform_projects_total, db_pool_size, ticks, last_read>>

\* the loops of lines 136-143
ResetTotals ==
    /\ tick_pc = "reset"
    /\ tick_pc' = "totals"
    /\ platform_projects_total' = reset_totals(platform_projects_total)
    /\ UNCHANGED <<store, projects, platform_projects, db_pool_size, ticks, last_read>>

\* the loop of lines 146-151; update_metrics returns and the task waits for
\* the next interval
SetCurrentTotals ==
    /\ tick_pc = "totals"
    /\ tick_pc' = "idle"
    /\ platform_projects_total' =
          set_current_totals(platform_projects_total, status_plan_counts(projects))
    /\ projects' = <<>>
    /\ ticks' = SubSeq(<<[snapshot |-> projects,
                          platform_projects |-> platform_projects,
                          platform_projects_total |-> platform_projects_total']>> \o ticks,
                       1, IF Len(ticks) = 0 THEN 1 ELSE 2)
    /\ UNCHANGED <<store, platform_projects, db_pool_size, last_read>>

ReconInit ==
    /\ store = <<>>
    /\ tick_pc = "idle"
    /\ projects = <<>>
    /\ platform_projects = EmptyVec
    /\ platform_projects_total = EmptyVec
    /\ db_pool_size = 0
    /\ ticks = <<>>
    /\ last_read = "none"

ReconNext ==
    \/ \E slug \in SlugInputs, plan \in PlanInputs, region \in RegionInputs :
          create_platform_project(slug, plan, region)
    \/ \E id \in 1..Len(store) : suspend_platform_project(id)
    \/ \E id \in 1..Len(store) : resume_platform_project(id)
    \/ TickStart
    \/ ReadOk
    \/ ReadFail
    \/ SetProjectGauges
    \/ ResetTotals
    \/ SetCurrentTotals

(***************************************************************************)
(* The Path Normalizer on its own: one call of normalize_path.             *)
(***************************************************************************)
VARIABLES
    np_path,   \* the argument
    np_out     \* the result, once the call has returned (optional)

np_vars == <<np_path, np_out>>

s_42 == <<"4", "2">>
s_plus7 == <<"+", "7">>
s_4a == <<"4", "a">>
s_ten_digits == <<"1", "2", "3", "4", "5", "6", "7", "8", "9", "0">>
s_ten_letters == <<"a", "b", "c", "d", "e", "f", "g", "h", "i", "j">>
s_eleven_letters == <<"a", "b", "c", "d", "e", "f", "g", "h", "i", "j", "k">>

\* the segments the paths are made of; the empty one gives "//" and a
\* trailing "/"
SegmentInputs ==
    {s_api, s_v1, s_42, s_plus7, s_4a, <<>>, s_id, s_ten_digits, s_ten_letters,
     s_eleven_letters}

RECURSIVE SeqsUpTo(_, _)
\* the non-empty sequences over S of at most n elements
SeqsUpTo(S, n) ==
    IF n = 0 THEN {}
    ELSE LET shorter == SeqsUpTo(S, n - 1)
         IN  {<<x>> : x \in S} \cup shorter \cup
             {Append(q, x) : q \in shorter, x \in S}

FixturePaths ==
    { MkPath(<<s_health>>),
      MkPath(<<s_api, s_v1, s_platform, s_projects>>),
      MkPath(<<s_api, s_v1, s_platform, s_projects, s_42>>) }

PathInputs == {MkPath(segs) : segs \in SeqsUpTo(SegmentInputs, MaxSegments)} \cup FixturePaths

NpIdle == np_path = <<>> /\ np_out = <<>>

NpInit == np_path \in PathInputs /\ np_out = <<>>

\* the call of line 22
Normalize ==
    /\ np_out = <<>>
    /\ np_path # <<>>
    /\ np_out' = <<normalize_path(np_path)>>
    /\ UNCHANGED np_path

(***************************************************************************)
(* One request through metrics_middleware, with the request that was sent  *)
(* and the response the handler gave kept next to it.                      *)
(***************************************************************************)
VARIABLES
    one_in,        \* history: the request sent (optional)
    one_out,       \* history: the response the wrapped handler produced (optional)
    one_runs,      \* history: how often the wrapped handler was run
    one_returned   \* history: the response given back to the caller (optional)

one_vars == <<one_in, one_out, one_runs, one_returned>>

\* content-length headers, each with the length it states (none when the
\* header is absent or is no number)
LengthCases ==
    { [header |-> NoHeader, states |-> <<>>],
      [header |-> << <<>> >>, states |-> <<>>],
      [header |-> << <<"a", "b", "c">> >>, states |-> <<>>],
      [header |-> << <<"0">> >>, states |-> <<0>>],
      [header |-> << <<"-", "5">> >>, states |-> <<0 - 5>>],
      [header |-> << <<"+", "7">> >>, states |-> <<7>>],
      [header |-> << <<"1", "2", "0">> >>, states |-> <<120>>] }

\* status codes, each with its decimal text
StatusCases ==
    { [code |-> 200, text |-> <<"2", "0", "0">>],
      [code |-> 399, text |-> <<"3", "9", "9">>],
      [code |-> 400, text |-> <<"4", "0", "0">>],
      [code |-> 499, text |-> <<"4", "9", "9">>],
      [code |-> 500, text |-> <<"5", "0", "0">>],
      [code |-> 503, text |-> <<"5", "0", "3">>] }

\* elapsed milliseconds, around the thresholds of 0.5 s and 1.0 s
DurationCases == {0, 500, 501, 600, 1000, 1001, 1200}

OneRequests ==
    [method : {"GET", "POST"},
     path : {MkPath(<<s_health>>), MkPath(<<s_api, s_v1, s_platform, s_projects, s_42>>)},
     length : LengthCases]

OneResponses == [status : StatusCases, duration : DurationCases, length : LengthCases]

OneInit ==
    /\ one_in = <<>>
    /\ one_out = <<>>
    /\ one_runs = 0
    /\ one_returned = <<>>

\* lines 17-36
OneStart(inp) ==
    /\ Start(1, [method |-> inp.method, path |-> inp.path,
                 content_length |-> inp.length.header])
    /\ one_in' = <<inp>>
    /\ UNCHANGED <<one_out, one_runs, one_returned>>

\* line 36: next.run(request).await gives the response
OneHandlerReturns(out) ==
    /\ HandlerReturns(1, [status |-> out.status.code, duration |-> out.duration,
                          content_length |-> out.length.header])
    /\ one_out' = <<out>>
    /\ one_runs' = one_runs + 1
    /\ UNCHANGED <<one_in, one_returned>>

\* line 36: next.run(request).await does not come back
OneHandlerFaults ==
    /\ HandlerFaults(1)
    /\ one_runs' = one_runs + 1
    /\ UNCHANGED <<one_in, one_out, one_returned>>

\* lines 62-116
OneRecord ==
    /\ \/ RecordRequestSize(1)
       \/ RecordResponseSize(1)
       \/ RecordRequest(1)
       \/ RecordDuration(1)
       \/ RecordError(1)
       \/ RecordSlaP95(1)
       \/ RecordSlaP99(1)
    /\ UNCHANGED one_vars

\* OneReturn that answers 500 in the place of the handler's response
OneReturnReplaced ==
    /\ Decrement(1)
    /\ one_returned' = <<[one_out[1] EXCEPT !.status = [code |-> 500, text |-> <<"5", "0", "0">>]]>>
    /\ UNCHANGED <<one_in, one_out, one_runs>>

\* lines 118-121: the response of line 36 is the value of the call
OneReturn ==
    /\ Decrement(1)
    /\ one_returned' = one_out
    /\ UNCHANGED <<one_in, one_out, one_runs>>

OneNext ==
    \/ \E inp \in OneRequests : OneStart(inp)
    \/ \E out \in OneResponses : OneHandlerReturns(out)
    \/ OneHandlerFaults
    \/ OneRecord
    \/ OneReturn

(***************************************************************************)
(* One series of http_request_duration_seconds under a sequence of         *)
(* observations.                                                           *)
(***************************************************************************)
VARIABLES
    hist,       \* the series
    observed    \* history: the durations observed, in milliseconds

hist_vars == <<hist, observed>>

MaxObservations == 3

\* durations on, between and beyond the boundaries
ObservedDurations == {0, 1, 2, 100, 300, 5000, 5001}

HistInit ==
    /\ hist = EmptyHistogram(DurationBuckets)
    /\ observed = <<>>

\* line 94: .observe(duration)
ObserveDuration(d) ==
    /\ Len(observed) < MaxObservations
    /\ hist' = Observe(hist, DurationBuckets, d)
    /\ observed' = Append(observed, d)

HistNext == \E d \in ObservedDurations : ObserveDuration(d)

(***************************************************************************)
(* A request in the middleware while the background job runs its ticks.    *)
(***************************************************************************)
VARIABLE overlap   \* history: where the request stood at each step it took during the current read

\* RequestStep that waits for the job's read, as when update_metrics is
\* awaited on the request path
RequestStepAfterRead ==
    /\ tick_pc # "read"
    /\ \/ \E inp \in RequestInputs : Start(1, inp)
       \/ \E out \in HandlerOutcomes : HandlerReturns(1, out)
       \/ RecordRequestSize(1)
       \/ RecordResponseSize(1)
       \/ RecordRequest(1)
       \/ RecordDuration(1)
       \/ RecordError(1)
       \/ RecordSlaP95(1)
       \/ RecordSlaP99(1)
       \/ Decrement(1)
    /\ overlap' = IF tick_pc = "read" THEN overlap \cup {reqs[1].pc} ELSE overlap
    /\ UNCHANGED recon_vars

\* a step of metrics_middleware; the job is a task of its own
\* (main.rs:62-71) and shares only the registry handle with it
RequestStep ==
    /\ \/ \E inp \in RequestInputs : Start(1, inp)
       \/ \E out \in HandlerOutcomes : HandlerReturns(1, out)
       \/ RecordRequestSize(1)
       \/ RecordResponseSize(1)
       \/ RecordRequest(1)
       \/ RecordDuration(1)
       \/ RecordError(1)
       \/ RecordSlaP95(1)
       \/ RecordSlaP99(1)
       \/ Decrement(1)
    /\ overlap' = IF tick_pc = "read" THEN overlap \cup {reqs[1].pc} ELSE overlap
    /\ UNCHANGED recon_vars

\* a step of the job or of the store
JobStep ==
    /\ \/ create_platform_project("acme", "dev", "us-east-1")
       \/ TickStart
       \/ ReadOk
       \/ ReadFail
       \/ SetProjectGauges
       \/ ResetTotals
       \/ SetCurrentTotals
    /\ overlap' = IF tick_pc = "idle" THEN {} ELSE overlap
    /\ UNCHANGED mw_vars

ServerNext == RequestStep \/ JobStep

(***************************************************************************)
(* The pool gauges that Metrics::new registers next to db_pool_size.       *)
(***************************************************************************)
VARIABLES db_pool_idle, db_pool_active

pool_vars == <<db_pool_idle, db_pool_active>>

\* a Gauge starts at 0
PoolInit ==
    /\ db_pool_idle = 0
    /\ db_pool_active = 0

(***************************************************************************)
(* The background job with the callers of the store and a scrape of        *)
(* /metrics beside it.                                                     *)
(***************************************************************************)
VARIABLES
    rendered,    \* history: what the last gather read, and where the job stood (optional)
    last_call,   \* history: per project, the target of the last status call
    failures,    \* history: failed reads since the last read that succeeded
    recovered    \* history: the last read that succeeded came after a failed one

rc_vars == <<rendered, last_call, failures, recovered>>

\* failures counts up to this number and stays there
MaxFailedTicks == 2

RcInit ==
    /\ rendered = <<>>
    /\ last_call = <<>>
    /\ failures = 0
    /\ recovered = FALSE

\* POST /api/v1/platform/projects
RcCreate(slug, plan, region) ==
    /\ create_platform_project(slug, plan, region)
    /\ last_call' = Append(last_call, [target |-> "active", flip |-> FALSE])
    /\ UNCHANGED <<rendered, failures, recovered>>

\* POST /api/v1/platform/projects/:id/suspend
RcSuspend(id) ==
    /\ suspend_platform_project(id)
    /\ last_call' = [last_call EXCEPT ![id] = [target |-> "suspended", flip |-> ~@.flip]]
    /\ UNCHANGED <<rendered, failures, recovered>>

\* POST /api/v1/platform/projects/:id/resume
RcResume(id) ==
    /\ resume_platform_project(id)
    /\ last_call' = [last_call EXCEPT ![id] = [target |-> "active", flip |-> ~@.flip]]
    /\ UNCHANGED <<rendered, failures, recovered>>

\* the interval fires and update_metrics starts
RcTickStart == TickStart /\ UNCHANGED rc_vars

RcReadOk ==
    /\ ReadOk
    /\ recovered' = (failures > 0)
    /\ failures' = 0
    /\ UNCHANGED <<rendered, last_call>>

RcReadFail ==
    /\ ReadFail
    /\ failures' = IF failures < MaxFailedTicks THEN failures + 1 ELSE failures
    /\ UNCHANGED <<rendered, last_call, recovered>>

\* the gauge writes of a tick whose read succeeded
RcTickWrites ==
    /\ \/ SetProjectGauges
       \/ ResetTotals
       \/ SetCurrentTotals
    /\ UNCHANGED rc_vars

\* Metrics::gather: the registry is read as it stands
Gather ==
    /\ rendered' = <<[platform_projects_total |-> platform_projects_total,
                      tick_pc |-> tick_pc,
                      previous |-> IF ticks = <<>> THEN <<>> ELSE <<ticks[1].snapshot>>,
                      current |-> projects]>>
    /\ UNCHANGED <<recon_vars, last_call, failures, recovered>>

\* the plans the callers of this specification ask for
RcPlanInputs == {"dev"}

\* the steps of the spawned task
RcJob == RcTickStart \/ RcReadOk \/ RcReadFail \/ RcTickWrites

ReconcileNext ==
    \/ \E plan \in RcPlanInputs : RcCreate("acme", plan, "us-east-1")
    \/ \E id \in 1..Len(store) : RcSuspend(id)
    \/ \E id \in 1..Len(store) : RcResume(id)
    \/ RcJob
    \/ Gather

(***************************************************************************)
(* Specifications.  The middleware and the reconciliation job write        *)
(* disjoint metrics of the registry; each is checked with the other at     *)
(* rest.                                                                   *)
(***************************************************************************)
vars == <<mw_vars, recon_vars, np_vars, one_vars, hist_vars, overlap, pool_vars, rc_vars>>

\* the variables outside the middleware and the job
rest_vars == <<np_vars, one_vars, hist_vars, overlap, pool_vars, rc_vars>>

RestInit == OneInit /\ HistInit /\ overlap = {} /\ PoolInit /\ RcInit

Init == MwInit /\ ReconInit /\ NpIdle /\ RestInit

MwStep ==
    MwNext /\ UNCHANGED <<recon_vars, np_vars, one_vars, hist_vars, overlap, pool_vars, rc_vars>>

ReconStep ==
    ReconNext /\ UNCHANGED <<mw_vars, np_vars, one_vars, hist_vars, overlap, pool_vars, rc_vars>>

NormalizeStep ==
    Normalize /\ UNCHANGED <<mw_vars, recon_vars, one_vars, hist_vars, overlap, pool_vars, rc_vars>>

OneStep == OneNext /\ UNCHANGED <<recon_vars, np_vars, hist_vars, overlap, pool_vars, rc_vars>>

HistStep ==
    HistNext /\ UNCHANGED <<mw_vars, recon_vars, np_vars, one_vars, overlap, pool_vars, rc_vars>>

ServerStep == ServerNext /\ UNCHANGED <<np_vars, one_vars, hist_vars, pool_vars, rc_vars>>

ReconcileStep ==
    ReconcileNext /\ UNCHANGED <<mw_vars, np_vars, one_vars, hist_vars, overlap, pool_vars>>

\* a step of the spawned task (main.rs:65-71)
JobProgress == RcJob /\ UNCHANGED <<mw_vars, np_vars, one_vars, hist_vars, overlap, pool_vars>>

\* the store answers the read of a tick
StoreAnswers == RcReadOk /\ UNCHANGED <<mw_vars, np_vars, one_vars, hist_vars, overlap, pool_vars>>

SpecMW == Init /\ [][MwStep]_vars

SpecRecon == Init /\ [][ReconStep]_vars

NormalizeInit == MwInit /\ ReconInit /\ NpInit /\ RestInit

SpecNormalize == NormalizeInit /\ [][NormalizeStep]_vars

SpecOne == Init /\ [][OneStep]_vars

SpecHistogram == Init /\ [][HistStep]_vars

SpecServer == Init /\ [][ServerStep]_vars

SpecReconcile == Init /\ [][ReconcileStep]_vars

\* the task is scheduled as long as the process lives, and a store that
\* answers again answers a read the job keeps issuing
SpecReconcileLive ==
    Init /\ [][ReconcileStep]_vars /\ WF_vars(JobProgress) /\ SF_vars(StoreAnswers)

(***************************************************************************)
(* Properties.                                                             *)
(***************************************************************************)
AtRest == \A r \in RequestIds : ~InProgress(r)

NoFault == \A r \in RequestIds : reqs[r].pc # "faulted"

\* C1: once no request is in progress, the sum of http_requests_total over
\* all its series equals the number of requests that entered the middleware,
\* requests whose handler faulted included.
C1_EveryRequestCounted ==
    AtRest => VecTotal(http_requests_total) = Cardinality({r \in RequestIds : Entered(r)})

\* C2: after any sequence of requests, faulting or not, active_connections is
\* 0 once no request is in progress.
C2_GaugeZeroAtRest == AtRest => active_connections = 0

\* The rows of a snapshot per (status, plan), and the labels of its projects.
CountOf(rows, key) ==
    Cardinality({i \in 1..Len(rows) : <<rows[i].status, rows[i].plan>> = key})

CombinationsOf(rows) == {<<rows[i].status, rows[i].plan>> : i \in 1..Len(rows)}

LabelsOf(rows) == {ProjectLabels(rows[i]) : i \in 1..Len(rows)}

Reads(vec, labels, v) == HasSeries(vec, labels) /\ vec[labels] = v

\* C3: a (status, plan) combination that had projects in the snapshot of one
\* successful tick and has none in the snapshot of the next successful tick
\* reads 0 in platform_projects_total after that next tick.
C3_ResetLaw ==
    Len(ticks) = 2 =>
        \A key \in CombinationsOf(ticks[2].snapshot) :
            CountOf(ticks[1].snapshot, key) = 0 =>
                Reads(ticks[1].platform_projects_total, key, 0)

\* the project gauges as the last successful tick left them
Exposed ==
    IF ticks = <<>>
    THEN [platform_projects |-> EmptyVec, platform_projects_total |-> EmptyVec]
    ELSE [platform_projects |-> ticks[1].platform_projects,
          platform_projects_total |-> ticks[1].platform_projects_total]

\* C4: after a tick whose store read failed, and until the next tick whose
\* read succeeds, every platform_projects and platform_projects_total series
\* has the value it had before the failed tick.
C4_FailedReadKeepsGauges ==
    last_read = "failed" =>
        /\ platform_projects = Exposed.platform_projects
        /\ platform_projects_total = Exposed.platform_projects_total

C4_Witness ==
    /\ last_read = "failed"
    /\ tick_pc = "idle"
    /\ ticks # <<>>
    /\ \E key \in KnownCombinations : ~Reads(platform_projects_total, key, 0)
    /\ list_platform_projects # ticks[1].snapshot

\* C5: two requests that match the same route get the same endpoint label,
\* whatever the resource id in their path.
C5_SameRouteSameLabel ==
    \A r1, r2 \in RequestIds :
        (/\ InProgress(r1)
         /\ InProgress(r2)
         /\ RouteOf(reqs[r1].path) # 0
         /\ RouteOf(reqs[r1].path) = RouteOf(reqs[r2].path))
        => reqs[r1].endpoint = reqs[r2].endpoint

\* C6: as long as no handler has faulted, active_connections is the number
\* of requests that passed START and have not completed their bookkeeping;
\* it is never negative and is 0 when no request is in progress.
C6_ActiveConnections ==
    NoFault =>
        /\ active_connections = Cardinality({r \in RequestIds : InProgress(r)})
        /\ active_connections >= 0
        /\ (AtRest => active_connections = 0)

C6_Witness ==
    /\ NoFault
    /\ active_connections = 2
    /\ \E r \in RequestIds : reqs[r].pc = "dec"
    /\ \E r \in RequestIds : reqs[r].pc = "handler"

\* C7 as stated: no request has a counter or histogram updated while it is
\* still counted in active_connections.
C7_DecrementBeforeRecording ==
    \A r \in RequestIds : reqs[r].recorded # {} => ~reqs[r].in_gauge

\* C7, amended: the gauge is decremented after the recordings. A request in
\* its COMPLETED bookkeeping is still counted in active_connections, and a
\* request that is no longer counted has made all its recordings, the
\* request counter and the duration histogram among them.
C7_DecrementAfterRecording ==
    \A r \in RequestIds :
        /\ reqs[r].pc \in Bookkeeping => reqs[r].in_gauge
        /\ (Entered(r) /\ ~reqs[r].in_gauge) =>
              /\ reqs[r].pc = "done"
              /\ {"requests_total", "duration"} \subseteq reqs[r].recorded

C7_Witness ==
    \E r \in RequestIds :
        /\ reqs[r].pc = "dec"
        /\ reqs[r].in_gauge
        /\ {"requests_total", "duration", "errors", "latency_p95"} \subseteq reqs[r].recorded
        /\ active_connections >= 1

\* C8: two successful ticks in a row that read the same snapshot leave every
\* platform_projects and platform_projects_total series with the same value.
C8_Idempotent ==
    (Len(ticks) = 2 /\ ticks[1].snapshot = ticks[2].snapshot) =>
        /\ ticks[1].platform_projects = ticks[2].platform_projects
        /\ ticks[1].platform_projects_total = ticks[2].platform_projects_total

C8_Witness ==
    /\ Len(ticks) = 2
    /\ ticks[1].snapshot = ticks[2].snapshot
    /\ Len(ticks[1].snapshot) = 2
    /\ ticks[1].platform_projects = ticks[2].platform_projects

\* C9: after a successful tick the series of every project of its snapshot
\* reads 1, and the tick left alone every series of a tuple that is not in its
\* snapshot: the tuples of the previous snapshot still read 1.
C9_ProjectGauges ==
    /\ ticks # <<>> =>
          \A labels \in LabelsOf(ticks[1].snapshot) :
              Reads(ticks[1].platform_projects, labels, 1)
    /\ Len(ticks) = 2 =>
          /\ \A labels \in LabelsOf(ticks[2].snapshot) :
                Reads(ticks[1].platform_projects, labels, 1)
          /\ \A labels \in DOMAIN ticks[2].platform_projects :
                labels \notin LabelsOf(ticks[1].snapshot) =>
                    Reads(ticks[1].platform_projects, labels,
                          ticks[2].platform_projects[labels])

C9_Witness ==
    /\ Len(ticks) = 2
    /\ \E old \in LabelsOf(ticks[2].snapshot), new \in LabelsOf(ticks[1].snapshot) :
          /\ old[1] = new[1]
          /\ old[2] # new[2]
          /\ old \notin LabelsOf(ticks[1].snapshot)
          /\ Reads(ticks[1].platform_projects, old, 1)
          /\ Reads(ticks[1].platform_projects, new, 1)

\* C10: after a successful tick, each of the 6 known (status, plan)
\* combinations reads in platform_projects_total the number of projects of
\* the tick's snapshot with that status and plan.
C10_Totals ==
    ticks # <<>> =>
        \A key \in KnownCombinations :
            Reads(ticks[1].platform_projects_total, key, CountOf(ticks[1].snapshot, key))

C10_Witness ==
    /\ Len(ticks) = 2
    /\ \E key \in KnownCombinations :
          /\ CountOf(ticks[2].snapshot, key) = 2
          /\ CountOf(ticks[1].snapshot, key) = 0
          /\ Reads(ticks[1].platform_projects_total, key, 0)
    /\ \E key \in KnownCombinations : CountOf(ticks[1].snapshot, key) = 2

\* The text of a path read without split and join: its "/" characters, the
\* text after the last of them and the text up to it.
SlashCount(p) == Cardinality({i \in 1..Len(p) : p[i] = "/"})

LastSlash(p) == CHOOSE i \in 1..Len(p) : p[i] = "/" /\ \A j \in (i + 1)..Len(p) : p[j] # "/"

FinalSegment(p) == SubSeq(p, LastSlash(p) + 1, Len(p))

UnderApi(p) == Len(p) >= 5 /\ SubSeq(p, 1, 5) = <<"/", "a", "p", "i", "/">>

\* C11: normalize_path replaces the final segment by ":id" exactly when the
\* path starts with "/api/", has more than 3 "/"-delimited segments and its
\* final segment parses as an unsigned integer or is longer than 10
\* characters; every other path is returned unchanged.
C11_NormalizeRule ==
    np_out # <<>> =>
        /\ np_out[1] =
              IF /\ UnderApi(np_path)
                 /\ SlashCount(np_path) + 1 > 3
                 /\ (ParsesU64(FinalSegment(np_path)) \/ Len(FinalSegment(np_path)) > 10)
              THEN SubSeq(np_path, 1, LastSlash(np_path)) \o <<":", "i", "d">>
              ELSE np_path
        /\ np_path \in {MkPath(<<s_health>>), MkPath(<<s_api, s_v1, s_platform, s_projects>>)}
              => np_out[1] = np_path
        /\ np_path = MkPath(<<s_api, s_v1, s_platform, s_projects, s_42>>)
              => np_out[1] = MkPath(<<s_api, s_v1, s_platform, s_projects, s_id>>)

C11_Witness ==
    /\ np_path = MkPath(<<s_api, s_v1, s_ten_letters, s_eleven_letters>>)
    /\ np_out = <<MkPath(<<s_api, s_v1, s_ten_letters, s_id>>)>>

\* C12 as stated: a path with 3 or fewer path segments (the texts between
\* its "/") is returned verbatim, "/api/v1/42" included.
C12_ThreeSegmentsVerbatim ==
    (np_out # <<>> /\ SlashCount(np_path) <= 3) => np_out[1] = np_path

\* C12, amended: a path that split('/') cuts in 3 or fewer parts, the empty
\* part before the leading "/" counted, is returned verbatim.
C12_ThreePartsVerbatim ==
    (np_out # <<>> /\ SlashCount(np_path) + 1 <= 3) => np_out[1] = np_path

C12_Witness ==
    /\ np_path = MkPath(<<s_api, s_42>>)
    /\ np_out = <<np_path>>

\* The one request has been answered; what was sent and what the handler gave.
OneDone == reqs[1].pc = "done"

OneEndpoint == normalize_path(one_in[1].path)

Positive(length) == length.states # <<>> /\ length.states[1] > 0

\* C13: a completed request of duration d adds exactly 1 to
\* sla_violations_total{endpoint, latency_p95} if and only if d > 0.5 s and
\* exactly 1 to sla_violations_total{endpoint, latency_p99} if and only if
\* d > 1.0 s, whatever its status.
C13_SlaThresholds ==
    OneDone =>
        LET d == one_out[1].duration
            p95 == <<OneEndpoint, "latency_p95">>
            p99 == <<OneEndpoint, "latency_p99">>
        IN  /\ DOMAIN sla_violations_total =
                  (IF d > 500 THEN {p95} ELSE {}) \cup (IF d > 1000 THEN {p99} ELSE {})
            /\ \A k \in DOMAIN sla_violations_total : sla_violations_total[k] = 1

C13_Witness ==
    /\ OneDone
    /\ one_out[1].duration = 1000
    /\ one_out[1].status.code = 200
    /\ Reads(sla_violations_total, <<OneEndpoint, "latency_p95">>, 1)
    /\ ~HasSeries(sla_violations_total, <<OneEndpoint, "latency_p99">>)

\* C14: a completed request adds 1 to http_errors_total exactly once when
\* its status is 400 or more and nothing otherwise; the series has
\* error_type server_error from 500 on and client_error from 400 to 499, and
\* the method, endpoint and status labels of the request's
\* http_requests_total series.
C14_ErrorCounter ==
    OneDone =>
        LET st == one_out[1].status
            labels == <<one_in[1].method, OneEndpoint, st.text>>
            kind == IF st.code >= 500 THEN "server_error" ELSE "client_error"
        IN  /\ DOMAIN http_requests_total = {labels}
            /\ DOMAIN http_errors_total =
                  IF st.code >= 400 THEN {labels \o <<kind>>} ELSE {}
            /\ \A k \in DOMAIN http_errors_total : http_errors_total[k] = 1

C14_Witness ==
    /\ OneDone
    /\ one_out[1].status.code = 400
    /\ Reads(http_errors_total,
             <<one_in[1].method, OneEndpoint, <<"4", "0", "0">>, "client_error">>, 1)

\* C15: a request is observed in http_request_size_bytes{method, endpoint}
\* if and only if its content-length is present and greater than 0, and in
\* http_response_size_bytes{method, endpoint, status} if and only if the
\* content-length of the response is; an absent or unparsable one records
\* nothing.
C15_SizeHistograms ==
    OneDone =>
        LET sent == one_in[1].length
            got == one_out[1].length
            reqkey == <<one_in[1].method, OneEndpoint>>
            respkey == <<one_in[1].method, OneEndpoint, one_out[1].status.text>>
        IN  /\ DOMAIN http_request_size_bytes = IF Positive(sent) THEN {reqkey} ELSE {}
            /\ Positive(sent) =>
                  /\ http_request_size_bytes[reqkey].count = 1
                  /\ http_request_size_bytes[reqkey].sum = sent.states[1]
            /\ DOMAIN http_response_size_bytes = IF Positive(got) THEN {respkey} ELSE {}
            /\ Positive(got) =>
                  /\ http_response_size_bytes[respkey].count = 1
                  /\ http_response_size_bytes[respkey].sum = got.states[1]

C15_Witness ==
    /\ OneDone
    /\ one_in[1].length.states = <<7>>
    /\ one_out[1].length.header = << <<"a", "b", "c">> >>
    /\ http_response_size_bytes = EmptyVec
    /\ DOMAIN http_request_size_bytes = {<<one_in[1].method, OneEndpoint>>}

\* C18: metrics_middleware runs the wrapped handler exactly once for a
\* request and gives the caller exactly the response the handler produced; no
\* instrumentation step replaces it or turns it into an error.
C18_HandlerOnceResponseUnchanged ==
    /\ one_runs <= 1
    /\ OneDone => /\ one_runs = 1
                  /\ one_out # <<>>
                  /\ one_returned = one_out
    /\ ~OneDone => one_returned = <<>>

C18_Witness ==
    /\ OneDone
    /\ one_runs = 1
    /\ one_returned # <<>>
    /\ one_returned[1].status.code = 503
    /\ one_returned[1].length.header = << <<"a", "b", "c">> >>
    /\ one_returned[1].duration = 1200

\* the http_requests_total labels of a request that has its response
RequestLabels(r) == <<reqs[r].method, reqs[r].endpoint, U16ToString(reqs[r].status)>>

\* the requests in flight that have incremented the series k
Counted(k) ==
    {r \in RequestIds : "requests_total" \in reqs[r].recorded /\ RequestLabels(r) = k}

AllInFlight == \A r \in RequestIds : reqs[r].pc # "done"

\* C16: while the requests are in flight together, every http_requests_total
\* series stands exactly as many above its start as requests with that
\* (method, endpoint, status) have incremented it, in every interleaving of
\* the increments: no update is lost.
C16_NoLostUpdate ==
    AllInFlight =>
        /\ \A k \in DOMAIN http_requests_total :
              http_requests_total[k] = Cardinality(Counted(k))
        /\ \A r \in RequestIds :
              "requests_total" \in reqs[r].recorded =>
                  HasSeries(http_requests_total, RequestLabels(r))

C16_Witness ==
    /\ AllInFlight
    /\ \E k \in DOMAIN http_requests_total :
          /\ http_requests_total[k] = 2
          /\ Cardinality(Counted(k)) = 2

\* the observations that fall at or under an upper bound
AtMost(bound) == {j \in 1..Len(observed) : observed[j] <= bound}

NumBuckets == Len(DurationBuckets)

\* C20: every observation of a duration d into
\* http_request_duration_seconds has incremented every bucket whose upper
\* bound is at least d, the smallest such bucket included; after any sequence
\* of observations the cumulative counts do not decrease in boundary order
\* and the +Inf bucket equals the number of observations.
C20_DurationBuckets ==
    /\ \A i \in 1..NumBuckets : hist.buckets[i] = Cardinality(AtMost(DurationBuckets[i]))
    /\ \A i \in 1..NumBuckets : \A j \in i..NumBuckets : hist.buckets[i] <= hist.buckets[j]
    /\ hist.buckets[NumBuckets] <= hist.count
    /\ hist.count = Len(observed)

C20_Witness ==
    /\ observed = <<100, 5001, 300>>
    /\ hist.buckets[5] = 0
    /\ hist.buckets[6] = 1
    /\ hist.buckets[8] = 2
    /\ hist.buckets[NumBuckets] = 2
    /\ hist.count = 3

Instrumented == {"new", "handler"} \cup Bookkeeping

\* C17: while the job waits for its store read, the next step of a request
\* in the middleware is enabled wherever the request stands, so a request
\* can go from its start to its end and record its metrics during the read.
C17_ReadDoesNotBlock ==
    (tick_pc = "read" /\ reqs[1].pc \in Instrumented) => ENABLED RequestStep

C17_Witness ==
    /\ tick_pc = "read"
    /\ reqs[1].pc = "done"
    /\ overlap = Instrumented
    /\ {"requests_total", "duration", "errors"} \subseteq reqs[1].recorded

\* the metrics Metrics::new registers, each with its label names
MetricsNew ==
    { [name |-> "http_requests_total", labels |-> <<"method", "endpoint", "status">>],
      [name |-> "http_request_duration_seconds", labels |-> <<"method", "endpoint">>],
      [name |-> "active_connections", labels |-> <<>>],
      [name |-> "database_queries_total", labels |-> <<>>],
      [name |-> "database_query_duration_seconds", labels |-> <<>>],
      [name |-> "http_errors_total",
       labels |-> <<"method", "endpoint", "status", "error_type">>],
      [name |-> "http_error_rate", labels |-> <<"error_class">>],
      [name |-> "db_pool_size", labels |-> <<>>],
      [name |-> "db_pool_idle", labels |-> <<>>],
      [name |-> "db_pool_active", labels |-> <<>>],
      [name |-> "db_pool_wait_time_seconds", labels |-> <<>>],
      [name |-> "http_request_size_bytes", labels |-> <<"method", "endpoint">>],
      [name |-> "http_response_size_bytes", labels |-> <<"method", "endpoint", "status">>],
      [name |-> "endpoint_error_rate", labels |-> <<"endpoint", "error_class">>],
      [name |-> "sla_violations_total", labels |-> <<"endpoint", "sla_type">>] }

\* the metrics written so far by the middleware and by update_metrics, each
\* with the label tuples passed to it
Written ==
    { [name |-> "http_requests_total", series |-> DOMAIN http_requests_total],
      [name |-> "http_request_duration_seconds",
       series |-> DOMAIN http_request_duration_seconds],
      [name |-> "http_errors_total", series |-> DOMAIN http_errors_total],
      [name |-> "http_request_size_bytes", series |-> DOMAIN http_request_size_bytes],
      [name |-> "http_response_size_bytes", series |-> DOMAIN http_response_size_bytes],
      [name |-> "sla_violations_total", series |-> DOMAIN sla_violations_total],
      [name |-> "active_connections", series |-> {<<>>}],
      [name |-> "db_pool_size", series |-> {<<>>}],
      [name |-> "platform_projects", series |-> DOMAIN platform_projects],
      [name |-> "platform_projects_total", series |-> DOMAIN platform_projects_total] }

\* C19: every metric written, platform_projects and platform_projects_total
\* included, is one that Metrics::new registers, and every label tuple
\* passed to it is as long as the registered list of label names.
C19_WritesRegistered ==
    \A w \in Written :
        w.series # {} =>
            \E m \in MetricsNew :
                /\ m.name = w.name
                /\ \A k \in w.series : Len(k) = Len(m.labels)

\* C29: normalize_path applied to its own result gives that result again,
\* and a path whose final segment is already ":id" is returned unchanged.
C29_NormalizeIdempotent ==
    np_out # <<>> =>
        /\ normalize_path(np_out[1]) = np_out[1]
        /\ (SlashCount(np_path) > 0 /\ FinalSegment(np_path) = s_id) => np_out[1] = np_path

C29_Witness ==
    /\ np_path = MkPath(<<s_api, s_v1, s_42, s_plus7>>)
    /\ np_out = <<MkPath(<<s_api, s_v1, s_42, s_id>>)>>
    /\ normalize_path(np_out[1]) = np_out[1]

\* the value of a counter series, 0 when it was never written
ValueOf(vec, labels) == IF HasSeries(vec, labels) THEN vec[labels] ELSE 0

\* the endpoint labels of sla_violations_total
SlaEndpoints == {k[1] : k \in DOMAIN sla_violations_total}

\* C27: in every reachable state and for every endpoint e,
\* sla_violations_total{e, latency_p99} is at most
\* sla_violations_total{e, latency_p95}.
C27_P99AtMostP95 ==
    \A e \in SlaEndpoints :
        ValueOf(sla_violations_total, <<e, "latency_p99">>)
            <= ValueOf(sla_violations_total, <<e, "latency_p95">>)

C27_Witness ==
    \E e \in SlaEndpoints :
        /\ Reads(sla_violations_total, <<e, "latency_p99">>, 1)
        /\ Reads(sla_violations_total, <<e, "latency_p95">>, 2)

\* the (method, endpoint) pairs with a request counter or a duration series
MethodEndpoints ==
    {<<k[1], k[2]>> : k \in DOMAIN http_requests_total}
        \cup DOMAIN http_request_duration_seconds

\* the sum of http_requests_total{method, endpoint, status} over the statuses
RequestsOf(me) ==
    SumOver(http_requests_total,
            {k \in DOMAIN http_requests_total : <<k[1], k[2]>> = me})

\* the number of observations of http_request_duration_seconds{method, endpoint}
ObservationsOf(me) ==
    IF HasSeries(http_request_duration_seconds, me)
    THEN http_request_duration_seconds[me].count
    ELSE 0

NoBookkeeping == \A r \in RequestIds : reqs[r].pc \notin Bookkeeping

\* C28: for every (method, endpoint) the observations of the duration
\* histogram never exceed the sum of the request counter over the statuses,
\* and the two are equal whenever no request is in its COMPLETED bookkeeping.
C28_DurationMatchesCounter ==
    \A me \in MethodEndpoints :
        /\ ObservationsOf(me) <= RequestsOf(me)
        /\ NoBookkeeping => ObservationsOf(me) = RequestsOf(me)

C28_Witness ==
    /\ NoBookkeeping
    /\ \E me \in MethodEndpoints :
          /\ ObservationsOf(me) = 2
          /\ RequestsOf(me) = 2
          /\ Cardinality({k \in DOMAIN http_requests_total : <<k[1], k[2]>> = me}) = 2

\* the recordings of lines 62-116 in the order of the source
RecordingOrder ==
    <<"request_size", "response_size", "requests_total", "duration", "errors",
      "latency_p95", "latency_p99">>

\* whether a recording applies to the request r, by the conditions of the source
Applies(r, what) ==
    CASE what = "request_size" -> reqs[r].request_size > 0
      [] what = "response_size" -> reqs[r].response_size > 0
      [] what = "errors" -> reqs[r].status >= 400
      [] what = "latency_p95" -> reqs[r].duration > 500
      [] what = "latency_p99" -> reqs[r].duration > 1000
      [] OTHER -> TRUE

\* C24: the recordings of a completed request happen in the order request
\* size, response size, request counter, duration, error counter,
\* latency_p95, latency_p99: none is in the registry before an earlier one
\* that applies to the same request, and none that does not apply is made.
C24_RecordingOrder ==
    \A r \in RequestIds :
        reqs[r].pc \in Bookkeeping =>
            \A j \in 1..Len(RecordingOrder) :
                RecordingOrder[j] \in reqs[r].recorded =>
                    /\ Applies(r, RecordingOrder[j])
                    /\ \A i \in 1..(j - 1) :
                          Applies(r, RecordingOrder[i]) =>
                              RecordingOrder[i] \in reqs[r].recorded

C24_Witness ==
    \E r \in RequestIds :
        /\ reqs[r].pc = "sla_p99"
        /\ reqs[r].duration = 1200
        /\ reqs[r].response_size = 0
        /\ reqs[r].recorded =
              {"request_size", "requests_total", "duration", "errors", "latency_p95"}

\* C22: after any sequence of create, suspend and resume operations every
\* stored project has a plan in {dev, pro, enterprise}, so every
\* (status, plan) pair of a snapshot is one of the 6 combinations the job
\* resets.
C22_PlansKnown ==
    /\ \A i \in 1..Len(store) : store[i].plan \in {"dev", "pro", "enterprise"}
    /\ CombinationsOf(list_platform_projects) \subseteq KnownCombinations

\* a tick has started
Ticked == tick_pc # "idle" \/ last_read # "none"

\* C25: every tick first sets db_pool_size to max_connections, whether its
\* read then succeeds or fails; from the first tick on db_pool_size equals
\* that value, and db_pool_idle and db_pool_active are never written.
C25_PoolSizeGauge ==
    /\ Ticked => db_pool_size = MaxConnections
    /\ db_pool_idle = 0
    /\ db_pool_active = 0

C25_Witness ==
    /\ tick_pc = "idle"
    /\ last_read = "failed"
    /\ ticks = <<>>
    /\ store # <<>>
    /\ db_pool_size = MaxConnections

\* C23, the state part: the status of every stored project is the target of
\* the last call on it (active at creation) and is active or suspended.
C23_StatusIsLastTarget ==
    /\ Len(last_call) = Len(store)
    /\ \A id \in 1..Len(store) :
          /\ store[id].status = last_call[id].target
          /\ store[id].status \in {"active", "suspended"}

\* C23, the step part: a call with the target of the call before it leaves
\* the store as it is.
C23_RepeatChangesNothing ==
    \A id \in 1..Len(store) :
        (/\ last_call'[id].flip # last_call[id].flip
         /\ last_call'[id].target = last_call[id].target) => store' = store

\* C23: a project is created active; suspend sets an existing project to
\* suspended and resume to active whatever its status; after any sequence of
\* calls the status is the target of the last call, one of active and
\* suspended, and repeating a call changes nothing further.
C23_SuspendResume == []C23_StatusIsLastTarget /\ [][C23_RepeatChangesNothing]_vars

C23_Witness ==
    /\ Len(store) = 1
    /\ last_call[1] = [target |-> "suspended", flip |-> FALSE]
    /\ store[1].status = "suspended"

\* the gauges stand as the last successful tick's snapshot has them
Reflects ==
    /\ tick_pc = "idle"
    /\ ticks # <<>>
    /\ \A labels \in LabelsOf(ticks[1].snapshot) : Reads(platform_projects, labels, 1)
    /\ \A key \in CombinationsOf(ticks[1].snapshot) :
          Reads(platform_projects_total, key, CountOf(ticks[1].snapshot, key))

\* C21: a failed store read does not stop the job: it issues a read again
\* and again, and when the store answers again after failed ticks, a tick
\* succeeds and leaves the project gauges as its snapshot has them.
C21_JobRecovers ==
    /\ []<>(tick_pc = "read")
    /\ (last_read = "failed") ~> (last_read = "ok" /\ recovered /\ Reflects)

C21_Witness ==
    /\ recovered
    /\ failures = 0
    /\ last_read = "ok"
    /\ Reflects
    /\ Len(ticks[1].snapshot) = 1

\* C26: a render during a successful tick never reads 0 in
\* platform_projects_total for a combination that has a project both in the
\* snapshot of the previous successful tick and in the snapshot of this one.
C26_ResetNotObservable ==
    (/\ rendered # <<>>
     /\ rendered[1].tick_pc \in {"gauges", "reset", "totals"}
     /\ rendered[1].previous # <<>>) =>
        \A key \in CombinationsOf(rendered[1].previous[1])
                       \cap CombinationsOf(rendered[1].current) :
            ~Reads(rendered[1].platform_projects_total, key, 0)

====
